---- MODULE Spec2Model ----
(***************************************************************************)
(* Model of split_cl.py (`git cl split`): the partition of the changed     *)
(* files by OWNERS directory (GetFilesSplitByOwners), the merge of the     *)
(* ownership groups by suggested reviewers (SelectReviewersForFiles) and   *)
(* the run of SplitCl / UploadCl over the resulting plan.                  *)
(*                                                                         *)
(* Strings that the code takes apart are modelled by their parts: a path   *)
(* or directory is the sequence of its segments, so that '' is <<>>, '.'   *)
(* is <<".">>, 'a/b' is <<"a", "b">>.                                      *)
(***************************************************************************)
EXTENDS Integers, Sequences, FiniteSets, TLC

\* ------------------------------------------------------------------------
\* Bounds of the model
\* ------------------------------------------------------------------------
MaxFiles == 3
MaxDepth == 2
\* longest status list of a modelled run of SplitCl, number of runs in a row
MaxRunFiles == 2
MaxRuns == 2
\* longest text, in pieces, and longest directory list given to
\* FormatDescriptionOrComment
MaxTextLen == 3
MaxDirs == 2
\* threads that create processes, and calls of Popen by one thread
MaxThreads == 2
MaxPopenCalls == 2

\* ------------------------------------------------------------------------
\* Constants of split_cl.py
\* ------------------------------------------------------------------------
CL_SPLIT_FORCE_LIMIT == 10
CL_SPLIT_TOP_REVIEWERS == 5

\* ------------------------------------------------------------------------
\* Input universes
\* ------------------------------------------------------------------------
\* directories of the working copy that may hold an OWNERS file (<<>> is the
\* repository root)
OwnersCandidates == { <<>>, <<"a">>, <<"a", "b">>, <<"z">> }

\* lists that cl.owners_client.SuggestOwners may return
ReviewerLists ==
    { <<>>, <<"r1">>, <<"r2">>, <<"r1", "r2">>, <<"r2", "r1">> }

\* the reviewers in the order sorted() puts them
ReviewerOrder == <<"A", "B", "C", "D", "E", "F", "G", "H", "r1", "r2">>

\* the (action, path) entries of the working copy, in the order in which
\* git reports them
StatusOrder ==
    << <<"D", <<"a", "b", "f">>>>, <<"A", <<"a", "c", "f">>>>,
       <<"M", <<"f">>>>, <<"M", <<"z", "f">>>> >>

ChangedFiles == { StatusOrder[i] : i \in DOMAIN StatusOrder }

\* answers a user may type at a prompt of gclient_utils.AskForData
Answers == { "y", "Y", "n", "" }

\* branch names are token sequences; NoBranch is the falsy result of
\* git.current_branch() / git.upstream()
RefactorBranch == <<"mysplit">>
UpstreamBranch == <<"origin/main">>
NoBranch == <<>>

\* texts are token sequences in which "$directory" is the placeholder;
\* NoComment is the None of a missing comment file
DescriptionText == <<"Refactor ", "$directory", ".">>
CommentText == <<"Please review ", "$directory">>
NoComment == <<>>

Min(a, b) == IF a < b THEN a ELSE b

Range(s) == { s[i] : i \in DOMAIN s }

\* all lists of pairwise distinct elements of S of length 0..n
RECURSIVE DistinctSeqs(_, _)
DistinctSeqs(S, n) ==
    IF n = 0 THEN { <<>> }
    ELSE LET shorter == DistinctSeqs(S, n - 1)
         IN  shorter \cup
             { Append(x[1], x[2]) :
                 x \in { y \in shorter \X S : y[2] \notin Range(y[1]) } }

VARIABLES
    \* --- GetFilesSplitByOwners / SelectReviewersForFiles ---
    files,                   \* the (action, path) list being split
    max_depth,               \* the max_depth argument
    owners,                  \* directories that hold an OWNERS file
    ppc,                     \* position in the planning code
    fidx,                    \* index of the file of the outer for loop
    dir_with_owners,         \* the walk's current directory
    files_split_by_owners,   \* dict, in insertion order: [dir, files]
    gidx,                    \* index of the group of the merge loop
    info_split_by_reviewers, \* dict, in insertion order
    \* --- SplitCl / UploadCl ---
    pc,                      \* position in SplitCl
    run,                     \* number of the current invocation of SplitCl
    dry_run,                 \* the dry_run argument
    comment,                 \* text of the comment file, or NoComment
    branches,                \* local branches of the repository
    current_branch,          \* the branch that is checked out
    refactor_branch,         \* git.current_branch() at line 259
    files_split_by_reviewers, \* the plan of the run
    answer,                  \* answer of CheckDescriptionBugLink, kept while
                             \* the run it stopped is the last one
    cl_index,                \* index of the group of the per-group loop
    cls_per_reviewer,        \* defaultdict(int), in insertion order
    log,                     \* calls to collaborators and output, in order
    tmp_file,                \* the file of the commit description exists
    \* --- FormatDescriptionOrComment on its own ---
    fmt_txt,                 \* the txt argument
    fmt_directories,         \* the directories argument
    fmt_result,              \* the text returned
    \* --- subprocess2: one call of a check_* wrapper ---
    sp_fn,                   \* the wrapper that is called
    sp_args,                 \* its args argument
    sp_kwargs,               \* the keyword arguments that matter
    sp_pc,                   \* position in the call
    sp_child,                \* the child process, once it has exited
    sp_result,               \* what the call returned or raised
    \* --- subprocess2.Popen called from several threads ---
    popen_lock,              \* Popen.popen_lock is held
    th_pc,                   \* position of each thread in Popen.__init__
    th_calls                 \* calls of Popen each thread has made

planVars == <<files, max_depth, owners, ppc, fidx, dir_with_owners,
              files_split_by_owners, gidx, info_split_by_reviewers>>

runVars == <<pc, run, dry_run, comment, branches, current_branch,
             refactor_branch, files_split_by_reviewers, answer, cl_index,
             cls_per_reviewer, log, tmp_file>>

fmtVars == <<fmt_txt, fmt_directories, fmt_result>>

procVars == <<sp_fn, sp_args, sp_kwargs, sp_pc, sp_child, sp_result>>

lockVars == <<popen_lock, th_pc, th_calls>>

\* the variables of subprocess2
libVars == <<procVars, lockVars>>

vars == <<planVars, runVars, fmtVars, libVars>>

\* ------------------------------------------------------------------------
\* os.path on repository-relative paths
\* ------------------------------------------------------------------------
ROOT == <<>>
DOT == <<".">>

\* os.path.dirname: drops the last segment; dirname('') is ''
dirname(p) == IF Len(p) = 0 THEN p ELSE SubSeq(p, 1, Len(p) - 1)

\* os.path.normpath of a clean relative path: '' becomes '.'
normpath(p) == IF p = ROOT THEN DOT ELSE p

\* lines 179-181 left out: the directory is searched at its full depth
Truncate_Never(d, depth) == d

\* os.path.join(*d.split(os.path.sep)[:max_depth]) when max_depth >= 1
Truncate(d, depth) ==
    IF depth >= 1 THEN SubSeq(d, 1, Min(depth, Len(d))) ELSE d

\* the directory that the strings '' and '.' both name is the root
RealDir(d) == IF d = DOT THEN ROOT ELSE d

\* os.path.isfile(os.path.join(d, 'OWNERS'))
HasOwnersFile(d, own) == RealDir(d) \in own

\* ------------------------------------------------------------------------
\* insertion-ordered dicts as sequences of records
\* ------------------------------------------------------------------------
HasDir(m, d) == \E i \in DOMAIN m : m[i].dir = d

\* a bucket that is replaced by the new entry instead of growing
SetDefaultAppend_Overwrite(m, d, entry) ==
    IF HasDir(m, d)
    THEN [ i \in DOMAIN m |->
             IF m[i].dir = d
             THEN [ m[i] EXCEPT !.files = <<entry>> ]
             ELSE m[i] ]
    ELSE Append(m, [ dir |-> d, files |-> <<entry>> ])

\* files_split_by_owners.setdefault(d, []).append(entry)
SetDefaultAppend(m, d, entry) ==
    IF HasDir(m, d)
    THEN [ i \in DOMAIN m |->
             IF m[i].dir = d
             THEN [ m[i] EXCEPT !.files = Append(@, entry) ]
             ELSE m[i] ]
    ELSE Append(m, [ dir |-> d, files |-> <<entry>> ])

\* first directory of the walk for a path
StartDir(path, depth) == Truncate(normpath(dirname(path)), depth)

\* negation of the while condition of the walk
WalkStops(d, m, own) == HasDir(m, d) \/ HasOwnersFile(d, own)

\* tuple(...) of the suggested list: same elements, same order
ReviewersKey(reviewers) == reviewers

\* line 369 with the empty tuple never found among the keys
HasKey_NonEmptyOnly(info, key) ==
    key # <<>> /\ \E i \in DOMAIN info : info[i].reviewers = key

\* line 369: reviewers in info_split_by_reviewers
HasKey(info, key) == \E i \in DOMAIN info : info[i].reviewers = key

\* lines 369-372: create the entry if missing, extend files, append directory
MergeGroup(info, key, directory, split_files) ==
    IF HasKey(info, key)
    THEN [ i \in DOMAIN info |->
             IF info[i].reviewers = key
             THEN [ info[i] EXCEPT !.files = @ \o split_files,
                                   !.owners_directories = Append(@, directory) ]
             ELSE info[i] ]
    ELSE Append(info, [ reviewers |-> key,
                        files |-> split_files,
                        owners_directories |-> <<directory>> ])

\* ------------------------------------------------------------------------
\* SelectReviewersForFiles, statement by statement
\* ------------------------------------------------------------------------
\* FormatDescriptionOrComment is not being called on its own
fmtIdle ==
    /\ fmt_txt = <<>>
    /\ fmt_directories = <<>>
    /\ fmt_result = <<>>

\* Python's None, and a value that is there
None == {}
Some(x) == { x }

\* no child process yet
NoChild == [ started |-> FALSE, returncode |-> None, stdout |-> None,
             stderr |-> None ]

\* no result yet
NoResult == [ kind |-> "none" ]

\* no wrapper of subprocess2 is being called
procIdle ==
    /\ sp_fn = "idle"
    /\ sp_args = [ type |-> "NoneType", value |-> <<>> ]
    /\ sp_kwargs = [ cwd |-> None, stdout |-> "absent", stderr |-> "absent" ]
    /\ sp_pc = "idle"
    /\ sp_child = NoChild
    /\ sp_result = NoResult

\* the threads that call Popen
Threads == 1..MaxThreads

\* no thread is calling Popen
lockIdle ==
    /\ popen_lock = FALSE
    /\ th_pc = [ t \in Threads |-> "idle" ]
    /\ th_calls = [ t \in Threads |-> 0 ]

libIdle == procIdle /\ lockIdle

InitPlan ==
    /\ files \in DistinctSeqs(ChangedFiles, MaxFiles)
    /\ max_depth \in 0..MaxDepth
    /\ owners \in SUBSET OwnersCandidates
    /\ ppc = "split"
    /\ fidx = 1
    /\ dir_with_owners = ROOT
    /\ files_split_by_owners = <<>>
    /\ gidx = 1
    /\ info_split_by_reviewers = <<>>
    /\ pc = "idle"
    /\ run = 1
    /\ dry_run = FALSE
    /\ comment = NoComment
    /\ branches = { RefactorBranch }
    /\ current_branch = RefactorBranch
    /\ refactor_branch = NoBranch
    /\ files_split_by_reviewers = <<>>
    /\ answer = ""
    /\ cl_index = 0
    /\ cls_per_reviewer = <<>>
    /\ log = <<>>
    /\ tmp_file = FALSE
    /\ fmtIdle
    /\ libIdle

\* line 173, 177-180: next file of the for loop, its starting directory
NextFile ==
    /\ ppc = "split"
    /\ fidx <= Len(files)
    /\ dir_with_owners' = StartDir(files[fidx][2], max_depth)
    /\ ppc' = "walk"
    /\ UNCHANGED <<runVars, fmtVars, libVars>>
    /\ UNCHANGED <<files, max_depth, owners, fidx, files_split_by_owners,
                   gidx, info_split_by_reviewers>>

\* line 182-184: one iteration of the while loop
WalkUp ==
    /\ ppc = "walk"
    /\ ~WalkStops(dir_with_owners, files_split_by_owners, owners)
    /\ dir_with_owners' = dirname(dir_with_owners)
    /\ UNCHANGED <<runVars, fmtVars, libVars>>
    /\ UNCHANGED <<files, max_depth, owners, ppc, fidx, files_split_by_owners,
                   gidx, info_split_by_reviewers>>

\* line 185-186: the while condition is false, the file joins the bucket
AddToBucket ==
    /\ ppc = "walk"
    /\ WalkStops(dir_with_owners, files_split_by_owners, owners)
    /\ files_split_by_owners' =
           SetDefaultAppend(files_split_by_owners, dir_with_owners, files[fidx])
    /\ fidx' = fidx + 1
    /\ ppc' = "split"
    /\ UNCHANGED <<runVars, fmtVars, libVars>>
    /\ UNCHANGED <<files, max_depth, owners, dir_with_owners, gidx,
                   info_split_by_reviewers>>

\* line 187, 354-356: the for loop is over, the map is returned
ReturnSplit ==
    /\ ppc = "split"
    /\ fidx > Len(files)
    /\ ppc' = "select"
    /\ gidx' = 1
    /\ info_split_by_reviewers' = <<>>
    /\ UNCHANGED <<runVars, fmtVars, libVars>>
    /\ UNCHANGED <<files, max_depth, owners, fidx, dir_with_owners,
                   files_split_by_owners>>

\* line 358-372: one ownership group gets its reviewers and is merged
SelectGroup ==
    /\ ppc = "select"
    /\ gidx <= Len(files_split_by_owners)
    /\ \E suggested \in ReviewerLists :
         info_split_by_reviewers' =
             MergeGroup(info_split_by_reviewers, ReviewersKey(suggested),
                        files_split_by_owners[gidx].dir,
                        files_split_by_owners[gidx].files)
    /\ gidx' = gidx + 1
    /\ UNCHANGED <<runVars, fmtVars, libVars>>
    /\ UNCHANGED <<files, max_depth, owners, ppc, fidx, dir_with_owners,
                   files_split_by_owners>>

\* line 374
ReturnPlan ==
    /\ ppc = "select"
    /\ gidx > Len(files_split_by_owners)
    /\ ppc' = "done"
    /\ UNCHANGED <<runVars, fmtVars, libVars>>
    /\ UNCHANGED <<files, max_depth, owners, fidx, dir_with_owners,
                   files_split_by_owners, gidx, info_split_by_reviewers>>

NextPlan ==
    \/ NextFile
    \/ WalkUp
    \/ AddToBucket
    \/ ReturnSplit
    \/ SelectGroup
    \/ ReturnPlan

SpecPlan == InitPlan /\ [][NextPlan]_vars

\* ------------------------------------------------------------------------
\* GetFilesSplitByOwners and SelectReviewersForFiles as functions
\* ------------------------------------------------------------------------
\* a value that is no directory: the walk never leaves its loop
NoDir == <<"?">>

\* lines 182-184: the directory at which the while loop ends. At a
\* directory that is its own dirname the next iteration repeats this one.
RECURSIVE Walk(_, _, _)
Walk(d, m, own) ==
    IF WalkStops(d, m, own) THEN d
    ELSE IF dirname(d) = d THEN NoDir
    ELSE Walk(dirname(d), m, own)

\* lines 173-186 from file i on; returns is FALSE when a walk never ends
RECURSIVE SplitFrom(_, _, _, _, _)
SplitFrom(fl, i, depth, own, m) ==
    IF i > Len(fl) THEN [ returns |-> TRUE, map |-> m ]
    ELSE LET d == Walk(StartDir(fl[i][2], depth), m, own)
         IN  IF d = NoDir THEN [ returns |-> FALSE, map |-> m ]
             ELSE SplitFrom(fl, i + 1, depth, own,
                            SetDefaultAppend(m, d, fl[i]))

GetFilesSplitByOwners(fl, depth, own) == SplitFrom(fl, 1, depth, own, <<>>)

\* lines 356-374 from group g on; suggest[g] is what SuggestOwners returns
\* for the files of group g
RECURSIVE SelectFrom(_, _, _, _)
SelectFrom(m, g, suggest, info) ==
    IF g > Len(m) THEN info
    ELSE SelectFrom(m, g + 1, suggest,
                    MergeGroup(info, ReviewersKey(suggest[g]),
                               m[g].dir, m[g].files))

SelectReviewersForFiles(m, suggest) == SelectFrom(m, 1, suggest, <<>>)

\* ------------------------------------------------------------------------
\* Helpers of SplitCl and UploadCl
\* ------------------------------------------------------------------------
\* status lists of at most MaxRunFiles entries, in git's order
RECURSIVE SubList(_, _)
SubList(S, i) ==
    IF i = 0 THEN <<>>
    ELSE IF i \in S THEN Append(SubList(S, i - 1), StatusOrder[i])
    ELSE SubList(S, i - 1)

StatusLists ==
    { SubList(S, Len(StatusOrder)) :
        S \in { T \in SUBSET DOMAIN StatusOrder : Cardinality(T) <= MaxRunFiles } }

\* str.lower() on the answers
lower(typed) == IF typed = "Y" THEN "y" ELSE typed

\* the directory as the '/'-separated string of the plan
RECURSIVE DirString(_)
DirString(d) ==
    IF Len(d) <= 1 THEN d
    ELSE DirString(SubSeq(d, 1, Len(d) - 1)) \o <<"/", d[Len(d)]>>

\* line 45 without the directory: prefix + '_split'
BranchName_NoDirectory(prefix, directories) == prefix \o <<"_split">>

\* prefix + '_' + directories[0] + '_split'
BranchName(prefix, directories) ==
    prefix \o <<"_">> \o DirString(directories[1]) \o <<"_split">>

\* a test that finds no branch
BranchExists_Never(prefix, directories, existing) == FALSE

\* line 45-47: branch_name in existing_branches
BranchExists(prefix, directories, existing) ==
    BranchName(prefix, directories) \in existing

\* str(list) of the directory strings
RECURSIVE StrList(_)
StrList(directories) ==
    IF Len(directories) = 1 THEN <<"'">> \o DirString(directories[1]) \o <<"'">>
    ELSE StrList(SubSeq(directories, 1, Len(directories) - 1))
         \o <<", ", "'">> \o DirString(directories[Len(directories)]) \o <<"'">>

FormatDirectoriesForPrinting(directories) ==
    IF Len(directories) > 1
    THEN <<"[">> \o StrList(directories) \o <<"]">>
    ELSE DirString(directories[1])

\* txt.replace('$directory', to_insert, 1): the first occurrence only
Replace_FirstOnly(txt, to_insert) ==
    IF \E i \in DOMAIN txt : txt[i] = "$directory"
    THEN LET first == CHOOSE i \in DOMAIN txt :
                        /\ txt[i] = "$directory"
                        /\ \A j \in 1..(i - 1) : txt[j] # "$directory"
         IN  SubSeq(txt, 1, first - 1) \o to_insert
             \o SubSeq(txt, first + 1, Len(txt))
    ELSE txt

\* txt.replace('$directory', to_insert)
RECURSIVE Replace(_, _)
Replace(txt, to_insert) ==
    IF txt = <<>> THEN <<>>
    ELSE (IF Head(txt) = "$directory" THEN to_insert ELSE <<Head(txt)>>)
         \o Replace(Tail(txt), to_insert)

FormatDescriptionOrComment(txt, directories) ==
    Replace(txt, FormatDirectoriesForPrinting(directories))

\* lines 115-122: the files of one kind, in order
DeletedFiles(fl) == SelectSeq(fl, LAMBDA e : e[1] = "D")

\* lines 121-122 with the deleted files checked out as well
ModifiedFiles_All(fl) == fl

ModifiedFiles(fl) == SelectSeq(fl, LAMBDA e : e[1] # "D")

\* the repository_root argument of UploadCl
RepositoryRoot == <<"/repo">>

\* os.path.abspath(os.path.join(repository_root, f))
AbsPath(f) == RepositoryRoot \o f

Paths(fl) == [ i \in DOMAIN fl |-> AbsPath(fl[i][2]) ]

\* sorted(reviewers) of the reviewer set
SortedReviewers(reviewer_set) ==
    SelectSeq(ReviewerOrder, LAMBDA r : r \in reviewer_set)

\* lines 138-148 with the mail sent whether or not a comment follows
UploadArgs_AlwaysMail(reviewer_set, cmt) ==
    <<"-f">>
    \o (IF reviewer_set # {} THEN <<"-r">> \o SortedReviewers(reviewer_set)
        ELSE <<>>)
    \o <<"--send-mail">>

\* lines 138-148, for the flags that depend on the group and the comment
UploadArgs(reviewer_set, cmt) ==
    <<"-f">>
    \o (IF reviewer_set # {} THEN <<"-r">> \o SortedReviewers(reviewer_set)
        ELSE <<>>)
    \o (IF cmt = NoComment THEN <<"--send-mail">> ELSE <<>>)

\* cls_per_reviewer[reviewer] += 1
Increment(cls, reviewer) ==
    IF \E i \in DOMAIN cls : cls[i].reviewer = reviewer
    THEN [ i \in DOMAIN cls |->
             IF cls[i].reviewer = reviewer
             THEN [ cls[i] EXCEPT !.count = @ + 1 ]
             ELSE cls[i] ]
    ELSE Append(cls, [ reviewer |-> reviewer, count |-> 1 ])

\* lines 305-306 with only the first reviewer of the group counted
CountReviewers_FirstOnly(cls, reviewers) ==
    IF reviewers = <<>> THEN cls ELSE Increment(cls, Head(reviewers))

\* lines 305-306
RECURSIVE CountReviewers(_, _)
CountReviewers(cls, reviewers) ==
    IF reviewers = <<>> THEN cls
    ELSE CountReviewers(Increment(cls, Head(reviewers)), Tail(reviewers))

\* lines 310-312 without reverse=True
RECURSIVE InsertByCount_Ascending(_, _)
InsertByCount_Ascending(sorted, item) ==
    IF sorted = <<>> THEN <<item>>
    ELSE IF Head(sorted).count <= item.count
         THEN <<Head(sorted)>> \o InsertByCount_Ascending(Tail(sorted), item)
         ELSE <<item>> \o sorted

\* lines 310-312: sorted(..., key=count, reverse=True); equal counts keep
\* their order
RECURSIVE InsertByCount(_, _)
InsertByCount(sorted, item) ==
    IF sorted = <<>> THEN <<item>>
    ELSE IF Head(sorted).count >= item.count
         THEN <<Head(sorted)>> \o InsertByCount(Tail(sorted), item)
         ELSE <<item>> \o sorted

RECURSIVE Rankings(_)
Rankings(cls) ==
    IF cls = <<>> THEN <<>>
    ELSE InsertByCount(Rankings(SubSeq(cls, 1, Len(cls) - 1)), cls[Len(cls)])

TopReviewers(cls) ==
    SubSeq(Rankings(cls), 1, Min(CL_SPLIT_TOP_REVIEWERS, Len(cls)))

\* one call or one output of the run
Entry(op, cl, ok, arg) == [ op |-> op, cl |-> cl, ok |-> ok, arg |-> arg ]

\* git.run(...): the call, and what the handler of lines 320-322 writes
\* when it raised CalledProcessError
RunLog(lg, op, cl, arg, ok) ==
    IF ok THEN Append(lg, Entry(op, cl, TRUE, arg))
    ELSE lg \o << Entry(op, cl, FALSE, arg), Entry("stderr", cl, TRUE, <<>>) >>

\* a failure of git.run that the run does not notice
AfterRun_IgnoresFailure(ok, next) == next

\* where SplitCl is after git.run(...): at the next statement, or returned
\* 1 from the except clause
AfterRun(ok, next) == IF ok THEN next ELSE "return 1"

\* lines 114-135 left out: the upload right after the branch
AfterBranch_UploadFirst(fl) == "upload"

\* first step of UploadCl after the branch was created
AfterBranch(fl) ==
    IF DeletedFiles(fl) # <<>> THEN "rm"
    ELSE IF ModifiedFiles(fl) # <<>> THEN "checkout"
    ELSE "commit"

AfterRm(fl) == IF ModifiedFiles(fl) # <<>> THEN "checkout" ELSE "commit"

Group == files_split_by_reviewers[cl_index]

ReviewerSet(reviewers) == Range(reviewers)

\* an answer that lets every run go on
AnswerIsYes_Always(typed) == TRUE

\* lines 286 and 341: answer.lower() == 'y'
AnswerIsYes(typed) == lower(typed) = "y"

\* an upload failure that ends the run
AfterUpload_Aborts(ret, next) == IF ret # 0 THEN "return 1" ELSE next

\* lines 152-159: the result of cmd_upload is printed, nothing else
AfterUpload(ret, next) == next

\* a final checkout that leaves HEAD where it was
RestoredBranch_Stays(ok, original, before) == before

\* line 318: the branch that is checked out after git checkout <original>
RestoredBranch(ok, original, before) == IF ok THEN original ELSE before

\* ------------------------------------------------------------------------
\* SplitCl, from one call of a collaborator to the next
\* ------------------------------------------------------------------------
planIdle ==
    /\ files = <<>>
    /\ max_depth = 0
    /\ owners = {}
    /\ ppc = "idle"
    /\ fidx = 1
    /\ dir_with_owners = ROOT
    /\ files_split_by_owners = <<>>
    /\ gidx = 1
    /\ info_split_by_reviewers = <<>>

planRest == <<max_depth, owners, ppc, fidx, dir_with_owners,
              files_split_by_owners, gidx, info_split_by_reviewers, answer,
              fmtVars, libVars>>

Init ==
    /\ planIdle
    /\ pc = "start"
    /\ run = 1
    /\ dry_run \in BOOLEAN
    /\ comment \in { NoComment, CommentText }
    /\ branches = { RefactorBranch }
    /\ current_branch \in { RefactorBranch, NoBranch }
    /\ refactor_branch = NoBranch
    /\ files_split_by_reviewers = <<>>
    /\ answer = ""
    /\ cl_index = 0
    /\ cls_per_reviewer = <<>>
    /\ log = <<>>
    /\ tmp_file = FALSE
    /\ fmtIdle
    /\ libIdle

\* line 245, 36
EnsureInGitRepository ==
    /\ pc = "start"
    /\ \E ok \in BOOLEAN :
         /\ log' = RunLog(log, "git rev-parse", 0, <<>>, ok)
         /\ pc' = AfterRun(ok, "status")
    /\ UNCHANGED <<files, planRest, tmp_file, run, dry_run, comment, branches,
                   current_branch, refactor_branch, files_split_by_reviewers,
                   cl_index, cls_per_reviewer>>

\* lines 247-256 over the status lists of a family of working copies; a
\* later run on the same working copy sees the same status
CaptureStatusOf(lists) ==
    /\ pc = "status"
    /\ \E fl \in lists :
         /\ files_split_by_reviewers # <<>> => fl = files
         /\ files' = fl
         /\ IF fl = <<>>
            THEN /\ log' = Append(log, Entry("print", 0, TRUE,
                                             <<"Cannot split an empty CL.">>))
                 /\ pc' = "return 1"
            ELSE /\ log' = log
                 /\ pc' = "config"
    /\ UNCHANGED <<planRest, tmp_file, run, dry_run, comment, branches, current_branch,
                   refactor_branch, files_split_by_reviewers, cl_index,
                   cls_per_reviewer>>

\* lines 247-256 on a working copy with a few changed files
CaptureStatus == CaptureStatusOf(StatusLists)

\* line 258
GetAuthor ==
    /\ pc = "config"
    /\ \E ok \in BOOLEAN :
         /\ log' = RunLog(log, "git config", 0, <<"user.email">>, ok)
         /\ pc' = AfterRun(ok, "current_branch")
    /\ UNCHANGED <<files, planRest, tmp_file, run, dry_run, comment, branches,
                   current_branch, refactor_branch, files_split_by_reviewers,
                   cl_index, cls_per_reviewer>>

\* lines 259-260; the assertion is not caught by the except clause
GetCurrentBranch ==
    /\ pc = "current_branch"
    /\ refactor_branch' = current_branch
    /\ pc' = IF current_branch = NoBranch THEN "AssertionError" ELSE "upstream"
    /\ log' = Append(log, Entry("git.current_branch", 0,
                                current_branch # NoBranch, current_branch))
    /\ UNCHANGED <<files, planRest, tmp_file, run, dry_run, comment, branches,
                   current_branch, files_split_by_reviewers, cl_index,
                   cls_per_reviewer>>

\* lines 261-263; the assertion is not caught by the except clause
GetUpstream ==
    /\ pc = "upstream"
    /\ \E refactor_branch_upstream \in { UpstreamBranch, NoBranch } :
         /\ pc' = IF refactor_branch_upstream = NoBranch
                  THEN "AssertionError" ELSE "buglink"
         /\ log' = Append(log, Entry("git.upstream", 0,
                                     refactor_branch_upstream # NoBranch,
                                     refactor_branch_upstream))
    /\ UNCHANGED <<files, planRest, tmp_file, run, dry_run, comment, branches,
                   current_branch, refactor_branch, files_split_by_reviewers,
                   cl_index, cls_per_reviewer>>

\* lines 335-340; matches: the description has a Bug: line. Without one
\* the user is asked.
AskForBugLink ==
    /\ pc = "buglink"
    /\ \E matches \in BOOLEAN, typed \in Answers :
         /\ matches => typed = "y"
         /\ answer' = typed
    /\ pc' = "answered"
    /\ UNCHANGED <<files, max_depth, owners, ppc, fidx, dir_with_owners,
                   files_split_by_owners, gidx, info_split_by_reviewers,
                   fmtVars, libVars, tmp_file,
                   run, dry_run, comment, branches, current_branch,
                   refactor_branch, files_split_by_reviewers, cl_index,
                   cls_per_reviewer, log>>

\* lines 341, 265-266
CheckDescriptionBugLink ==
    /\ pc = "answered"
    /\ pc' = IF AnswerIsYes(answer) THEN "plan" ELSE "return 0"
    /\ answer' = IF AnswerIsYes(answer) THEN "" ELSE answer
    /\ UNCHANGED <<files, max_depth, owners, ppc, fidx, dir_with_owners,
                   files_split_by_owners, gidx, info_split_by_reviewers,
                   fmtVars, libVars, tmp_file,
                   run, dry_run, comment, branches, current_branch,
                   refactor_branch, files_split_by_reviewers, cl_index,
                   cls_per_reviewer, log>>

\* the plans that SelectReviewersForFiles can return for a status list
Plans(fl) ==
    UNION { { SelectReviewersForFiles(GetFilesSplitByOwners(fl, x[1], x[2]).map,
                                      suggest) :
                suggest \in [ DOMAIN GetFilesSplitByOwners(fl, x[1], x[2]).map
                              -> ReviewerLists ] } :
            x \in { y \in (0..MaxDepth) \X (SUBSET OwnersCandidates) :
                      GetFilesSplitByOwners(fl, y[1], y[2]).returns } }

\* line 271 with the limit reached too early
NeedsConfirmation_AtLimit(dry, num_cls) ==
    ~dry /\ num_cls >= CL_SPLIT_FORCE_LIMIT

\* line 271: a real run of more CLs than the limit asks before it uploads
NeedsConfirmation(dry, num_cls) ==
    ~dry /\ num_cls > CL_SPLIT_FORCE_LIMIT

\* lines 268-289 over the plans that the planning can return: the plan, then
\* the confirmation of a large split. A later run on the same working copy
\* computes the same plan.
PlanSplitOf(plans) ==
    /\ pc = "plan"
    /\ \E plan \in IF files_split_by_reviewers # <<>>
                   THEN { files_split_by_reviewers } ELSE plans :
         /\ files_split_by_reviewers' = plan
         /\ IF NeedsConfirmation(dry_run, Len(plan))
            THEN \E typed \in Answers :
                   /\ log' = Append(log, Entry("AskForData", 0, TRUE,
                                               <<"Proceed? (y/n):", typed>>))
                   /\ pc' = IF AnswerIsYes(typed) THEN "loop" ELSE "return 0"
            ELSE /\ log' = log
                 /\ pc' = "loop"
    /\ cl_index' = 1
    /\ cls_per_reviewer' = <<>>
    /\ UNCHANGED <<files, planRest, tmp_file, run, dry_run, comment, branches,
                   current_branch, refactor_branch>>

\* lines 268-289 on a working copy with a few changed files
PlanSplit == PlanSplitOf(Plans(files))

\* line 268, 182-184: a walk of GetFilesSplitByOwners that never ends
PlanNeverReturns ==
    /\ pc = "plan"
    /\ files_split_by_reviewers = <<>>
    /\ \E depth \in 0..MaxDepth, own \in SUBSET OwnersCandidates :
         ~GetFilesSplitByOwners(files, depth, own).returns
    /\ pc' = "looping"
    /\ UNCHANGED <<files, planRest, tmp_file, run, dry_run, comment, branches,
                   current_branch, refactor_branch, files_split_by_reviewers,
                   cl_index, cls_per_reviewer, log>>

\* line 294 with the preview never taken
PreviewOnly_Never(dry) == FALSE

\* lines 294, 299: a dry run prints the group, a real run uploads it
PreviewOnly(dry) == dry

\* lines 290-298, 305-306: one group of a dry run
DryRunGroup ==
    /\ pc = "loop"
    /\ cl_index \in DOMAIN files_split_by_reviewers
    /\ PreviewOnly(dry_run)
    /\ log' = Append(log, Entry("PrintClInfo", cl_index, TRUE,
                 FormatDirectoriesForPrinting(Group.owners_directories)))
    /\ cls_per_reviewer' = CountReviewers(cls_per_reviewer, Group.reviewers)
    /\ cl_index' = cl_index + 1
    /\ UNCHANGED <<files, planRest, tmp_file, pc, run, dry_run, comment, branches,
                   current_branch, refactor_branch, files_split_by_reviewers>>

\* lines 300, 108-112, 39-50: the branch of the group; a group whose branch
\* exists is skipped and counted (lines 305-306)
CreateBranchForDirectories ==
    /\ pc = "loop"
    /\ cl_index \in DOMAIN files_split_by_reviewers
    /\ ~PreviewOnly(dry_run)
    /\ IF BranchExists(refactor_branch, Group.owners_directories, branches)
       THEN /\ log' = Append(log, Entry("print", cl_index, TRUE,
                        <<"Skipping ">> \o
                        FormatDirectoriesForPrinting(Group.owners_directories)))
            /\ cls_per_reviewer' =
                   CountReviewers(cls_per_reviewer, Group.reviewers)
            /\ cl_index' = cl_index + 1
            /\ UNCHANGED <<pc, branches, current_branch>>
       ELSE /\ \E ok \in BOOLEAN :
                 LET branch_name ==
                         BranchName(refactor_branch, Group.owners_directories)
                 IN  /\ log' = RunLog(log, "git checkout -b", cl_index,
                                      branch_name, ok)
                     /\ pc' = AfterRun(ok, AfterBranch(Group.files))
                     /\ branches' = IF ok THEN branches \cup { branch_name }
                                    ELSE branches
                     /\ current_branch' = IF ok THEN branch_name
                                          ELSE current_branch
            /\ UNCHANGED <<cl_index, cls_per_reviewer>>
    /\ UNCHANGED <<files, planRest, tmp_file, run, dry_run, comment, refactor_branch,
                   files_split_by_reviewers>>

\* lines 124-125
RemoveDeletedFiles ==
    /\ pc = "rm"
    /\ \E ok \in BOOLEAN :
         /\ log' = RunLog(log, "git rm", cl_index,
                          Paths(DeletedFiles(Group.files)), ok)
         /\ pc' = AfterRun(ok, AfterRm(Group.files))
    /\ UNCHANGED <<files, planRest, tmp_file, run, dry_run, comment, branches,
                   current_branch, refactor_branch, files_split_by_reviewers,
                   cl_index, cls_per_reviewer>>

\* lines 126-127
CheckoutModifiedFiles ==
    /\ pc = "checkout"
    /\ \E ok \in BOOLEAN :
         /\ log' = RunLog(log, "git checkout --", cl_index,
                          Paths(ModifiedFiles(Group.files)), ok)
         /\ pc' = AfterRun(ok, "commit")
    /\ UNCHANGED <<files, planRest, tmp_file, run, dry_run, comment, branches,
                   current_branch, refactor_branch, files_split_by_reviewers,
                   cl_index, cls_per_reviewer>>

\* gclient_utils.temporary_file(): leaving the with block removes the file
TemporaryFileExit(exists) == FALSE

\* lines 132-135 with the file removed by hand after the commit
LeaveWith_AfterCommitOnly(ok, exists) ==
    IF ok THEN TemporaryFileExit(exists) ELSE exists

\* lines 132-135: the with block is left when git.run returns and when it
\* raises
LeaveWith(ok, exists) == TemporaryFileExit(exists)

\* lines 132-134: the with block is entered and the description is written
WriteDescription ==
    /\ pc = "commit"
    /\ tmp_file' = TRUE
    /\ pc' = "commit -F"
    /\ UNCHANGED <<files, planRest, run, dry_run, comment, branches,
                   current_branch, refactor_branch, files_split_by_reviewers,
                   cl_index, cls_per_reviewer, log>>

\* line 135, and the end of the with block of line 132
CommitChanges ==
    /\ pc = "commit -F"
    /\ \E ok \in BOOLEAN :
         /\ log' = RunLog(log, "git commit", cl_index,
                          FormatDescriptionOrComment(DescriptionText,
                                                     Group.owners_directories),
                          ok)
         /\ pc' = AfterRun(ok, "upload")
         /\ tmp_file' = LeaveWith(ok, tmp_file)
    /\ UNCHANGED <<files, planRest, run, dry_run, comment, branches,
                   current_branch, refactor_branch, files_split_by_reviewers,
                   cl_index, cls_per_reviewer>>

\* line 159 with the comment never posted
PostsComment_Never(cmt) == FALSE

\* line 159: a comment that is None or empty is not posted
PostsComment(cmt) == cmt # NoComment

\* lines 138-159; without a comment the iteration ends here (lines 305-306)
UploadGroup ==
    /\ pc = "upload"
    /\ \E ret \in { 0, 1 } :
         /\ log' = Append(log, Entry("cmd_upload", cl_index, ret = 0,
                              UploadArgs(ReviewerSet(Group.reviewers), comment)))
                   \o (IF ret # 0
                       THEN << Entry("print", cl_index, TRUE,
                                     <<"Uploading failed.", "Delete ">>
                                     \o current_branch) >>
                       ELSE <<>>)
         /\ pc' = AfterUpload(ret, IF PostsComment(comment) THEN "comment"
                                   ELSE "loop")
    /\ IF PostsComment(comment)
       THEN UNCHANGED <<cl_index, cls_per_reviewer>>
       ELSE /\ cls_per_reviewer' =
                   CountReviewers(cls_per_reviewer, Group.reviewers)
            /\ cl_index' = cl_index + 1
    /\ UNCHANGED <<files, planRest, tmp_file, run, dry_run, comment, branches,
                   current_branch, refactor_branch, files_split_by_reviewers>>

\* lines 159-162, 305-306
AddComment ==
    /\ pc = "comment"
    /\ log' = Append(log, Entry("AddComment", cl_index, TRUE,
                 FormatDescriptionOrComment(comment, Group.owners_directories)))
    /\ cls_per_reviewer' = CountReviewers(cls_per_reviewer, Group.reviewers)
    /\ cl_index' = cl_index + 1
    /\ pc' = "loop"
    /\ UNCHANGED <<files, planRest, tmp_file, run, dry_run, comment, branches,
                   current_branch, refactor_branch, files_split_by_reviewers>>

\* lines 310-323: the ranking, then back to the original branch
FinishSplit ==
    /\ pc = "loop"
    /\ cl_index > Len(files_split_by_reviewers)
    /\ \E ok \in BOOLEAN :
         /\ log' = RunLog(Append(log, Entry("top reviewers", 0, TRUE,
                                            TopReviewers(cls_per_reviewer))),
                          "git checkout", 0, refactor_branch, ok)
         /\ pc' = AfterRun(ok, "return 0")
         /\ current_branch' = RestoredBranch(ok, refactor_branch, current_branch)
    /\ UNCHANGED <<files, planRest, tmp_file, run, dry_run, comment, branches,
                   refactor_branch, files_split_by_reviewers, cl_index,
                   cls_per_reviewer>>

Returned == pc \in { "return 0", "return 1", "AssertionError" }

\* the user checks out the branch to split and calls git cl split again,
\* with the same arguments; the branches of the earlier run are still there
RunAgain ==
    /\ Returned
    /\ run < MaxRuns
    /\ run' = run + 1
    /\ pc' = "start"
    /\ current_branch' = RefactorBranch
    /\ refactor_branch' = NoBranch
    /\ cl_index' = 0
    /\ cls_per_reviewer' = <<>>
    /\ log' = <<>>
    /\ answer' = ""
    /\ UNCHANGED <<files, max_depth, owners, ppc, fidx, dir_with_owners,
                   files_split_by_owners, gidx, info_split_by_reviewers,
                   fmtVars, libVars, tmp_file,
                   dry_run, comment, branches, files_split_by_reviewers>>

Next ==
    \/ EnsureInGitRepository
    \/ CaptureStatus
    \/ GetAuthor
    \/ GetCurrentBranch
    \/ GetUpstream
    \/ AskForBugLink
    \/ CheckDescriptionBugLink
    \/ PlanSplit
    \/ PlanNeverReturns
    \/ DryRunGroup
    \/ CreateBranchForDirectories
    \/ RemoveDeletedFiles
    \/ CheckoutModifiedFiles
    \/ WriteDescription
    \/ CommitChanges
    \/ UploadGroup
    \/ AddComment
    \/ FinishSplit
    \/ RunAgain

Spec == Init /\ [][Next]_vars

----------------------------------------------------------------------------
\* SplitCl on a large change: one changed file in each of many directories,
\* every directory with its own OWNERS file, so that the plan has as many
\* groups as there are directories with distinct suggested reviewers.

\* the directories of a large change
WideDirs ==
    <<"d01", "d02", "d03", "d04", "d05", "d06", "d07", "d08", "d09", "d10",
      "d11">>

\* line 366: what SuggestOwners answers for the directories of a large change
WideReviewers ==
    << <<"A", "B">>, <<"A">>, <<"B", "C">>, <<"D">>, <<"E">>, <<"F">>,
       <<"G">>, <<"G", "F">>, <<"F", "G">>, <<"H">>, <<"G", "H">> >>

\* the numbers of changed directories: a few, the limit, and one more
WideSizes == { 3, CL_SPLIT_FORCE_LIMIT, CL_SPLIT_FORCE_LIMIT + 1 }

\* lines 247-250: the status of a large change of n directories
WideStatus(n) ==
    [ i \in 1..n |-> << IF i = 1 THEN "D" ELSE "M", <<WideDirs[i], "f">> >> ]

\* line 183: the OWNERS files of a large change
WideOwners == { <<WideDirs[i]>> : i \in DOMAIN WideDirs }

\* lines 268-269: the plan of a large change
WidePlans(fl) ==
    { SelectReviewersForFiles(GetFilesSplitByOwners(fl, 0, WideOwners).map,
                              WideReviewers) }

\* lines 247-256 on a large change
CaptureWideStatus == CaptureStatusOf({ WideStatus(n) : n \in WideSizes })

\* lines 268-289 on a large change
PlanWideSplit == PlanSplitOf(WidePlans(files))

NextLarge ==
    \/ EnsureInGitRepository
    \/ CaptureWideStatus
    \/ GetAuthor
    \/ GetCurrentBranch
    \/ GetUpstream
    \/ AskForBugLink
    \/ CheckDescriptionBugLink
    \/ PlanWideSplit
    \/ DryRunGroup
    \/ CreateBranchForDirectories
    \/ RemoveDeletedFiles
    \/ CheckoutModifiedFiles
    \/ WriteDescription
    \/ CommitChanges
    \/ UploadGroup
    \/ AddComment
    \/ FinishSplit

SpecLarge == Init /\ [][NextLarge]_vars

----------------------------------------------------------------------------
\* FormatDescriptionOrComment on its own, for any text and directory list

\* the pieces of a text: the placeholder, and what stands between
\* placeholders
TextPieces == { "Fix ", "$directory", "!" }

RECURSIVE SeqsUpTo(_, _)
SeqsUpTo(S, n) ==
    IF n = 0 THEN { <<>> }
    ELSE SeqsUpTo(S, n - 1)
         \cup { Append(x[1], x[2]) :
                  x \in { y \in SeqsUpTo(S, n - 1) \X S : Len(y[1]) = n - 1 } }

\* the txt arguments: the description or the comment
Texts == SeqsUpTo(TextPieces, MaxTextLen)

\* the directories arguments: the keys of the ownership groups of a CL
DirectoryLists ==
    DistinctSeqs({ ROOT, DOT, <<"a">>, <<"a", "b">> }, MaxDirs) \ { <<>> }

InitFormat ==
    /\ planIdle
    /\ pc = "format"
    /\ run = 1
    /\ dry_run = FALSE
    /\ comment = NoComment
    /\ branches = { RefactorBranch }
    /\ current_branch = RefactorBranch
    /\ refactor_branch = NoBranch
    /\ files_split_by_reviewers = <<>>
    /\ answer = ""
    /\ cl_index = 0
    /\ cls_per_reviewer = <<>>
    /\ log = <<>>
    /\ tmp_file = FALSE
    /\ fmt_txt \in Texts
    /\ fmt_directories \in DirectoryLists
    /\ fmt_result = <<>>
    /\ libIdle

\* lines 65-68
CallFormat ==
    /\ pc = "format"
    /\ fmt_result' = FormatDescriptionOrComment(fmt_txt, fmt_directories)
    /\ pc' = "formatted"
    /\ UNCHANGED <<planVars, run, dry_run, comment, branches, current_branch,
                   refactor_branch, files_split_by_reviewers, answer, cl_index,
                   cls_per_reviewer, log, tmp_file, fmt_txt, fmt_directories,
                   libVars>>

NextFormat == CallFormat

SpecFormat == InitFormat /\ [][NextFormat]_vars

----------------------------------------------------------------------------
\* subprocess2: one call of check_call_out, check_call or check_output

Wrappers == { "check_call_out", "check_call", "check_output" }

\* the args argument: a list, a string, or a value of another type
ArgsValues ==
    { [ type |-> "list", value |-> <<"git", "status">> ],
      [ type |-> "str", value |-> <<"git status">> ],
      [ type |-> "NoneType", value |-> <<>> ] }

\* the keyword arguments the wrappers look at
KwargsValues ==
    [ cwd : { None, Some("/w") },
      stdout : { "absent", "PIPE", "DEVNULL" },
      stderr : { "absent", "PIPE" } ]

\* exit codes of the child: killed by a signal, success, failure
ReturnCodes == { -9, 0, 1 }

\* what a call raises
Raised(type, returncode, cmd, cwd, stdout, stderr) ==
    [ kind |-> "raise", type |-> type, returncode |-> returncode,
      cmd |-> cmd, cwd |-> cwd, stdout |-> stdout, stderr |-> stderr ]

\* what a call returns
ReturnValue(value) == [ kind |-> "return", value |-> value ]

\* line 265: check_output passes stdout=PIPE itself
EffectiveStdout(fn, kwargs) ==
    IF fn = "check_output" THEN "PIPE" ELSE kwargs.stdout

\* line 225 with only the positive exit codes taken as failures
Failed_PositiveOnly(returncode) == returncode > 0

\* line 225: if returncode
Failed(returncode) == returncode # 0

InitProc ==
    /\ planIdle
    /\ pc = "idle"
    /\ run = 1
    /\ dry_run = FALSE
    /\ comment = NoComment
    /\ branches = { RefactorBranch }
    /\ current_branch = RefactorBranch
    /\ refactor_branch = NoBranch
    /\ files_split_by_reviewers = <<>>
    /\ answer = ""
    /\ cl_index = 0
    /\ cls_per_reviewer = <<>>
    /\ log = <<>>
    /\ tmp_file = FALSE
    /\ fmtIdle
    /\ sp_fn \in Wrappers
    /\ sp_args \in ArgsValues
    /\ sp_kwargs \in KwargsValues
    /\ sp_pc = "call"
    /\ sp_child = NoChild
    /\ sp_result = NoResult
    /\ lockIdle

procRest == <<planVars, runVars, fmtVars, sp_fn, sp_args, sp_kwargs, lockVars>>

\* lines 262-264: check_output refuses a stdout argument
EnterWrapper ==
    /\ sp_pc = "call"
    /\ IF sp_fn = "check_output" /\ sp_kwargs.stdout # "absent"
       THEN /\ sp_result' = Raised("ValueError", None, sp_args, None, None, None)
            /\ sp_pc' = "raised"
       ELSE /\ sp_result' = sp_result
            /\ sp_pc' = "popen"
    /\ UNCHANGED <<procRest, sp_child>>

\* lines 149-180: Popen.__init__
CreateProcess ==
    /\ sp_pc = "popen"
    /\ IF sp_args.type \notin { "str", "list" }
       THEN /\ sp_result' = Raised("CalledProcessError", None, sp_args,
                                   sp_kwargs.cwd, None, None)
            /\ sp_pc' = "raised"
            /\ sp_child' = sp_child
       ELSE \E created \in { "ok", "OSError", "EAGAIN on cygwin" } :
              CASE created = "ok" ->
                     /\ sp_child' = [ sp_child EXCEPT !.started = TRUE ]
                     /\ sp_pc' = "running"
                     /\ sp_result' = sp_result
                [] created = "OSError" ->
                     /\ sp_result' = Raised("OSError", None, sp_args,
                                            sp_kwargs.cwd, None, None)
                     /\ sp_pc' = "raised"
                     /\ sp_child' = sp_child
                [] created = "EAGAIN on cygwin" ->
                     /\ sp_result' = Raised("CygwinRebaseError", Some(11),
                                            sp_args, sp_kwargs.cwd, None,
                                            Some("Visit"))
                     /\ sp_pc' = "raised"
                     /\ sp_child' = sp_child
    /\ UNCHANGED procRest

\* line 200: proc.communicate() and proc.returncode
Communicate ==
    /\ sp_pc = "running"
    /\ \E returncode \in ReturnCodes :
         sp_child' = [ started |-> TRUE,
                       returncode |-> Some(returncode),
                       stdout |-> IF EffectiveStdout(sp_fn, sp_kwargs) = "PIPE"
                                  THEN Some("out") ELSE None,
                       stderr |-> IF sp_kwargs.stderr = "PIPE"
                                  THEN Some("err") ELSE None ]
    /\ sp_pc' = "exited"
    /\ UNCHANGED <<procRest, sp_result>>

\* lines 224-229, 234-235, 265
CheckReturnCode ==
    /\ sp_pc = "exited"
    /\ LET returncode == CHOOSE r \in sp_child.returncode : TRUE
           out == << sp_child.stdout, sp_child.stderr >>
       IN  IF Failed(returncode)
           THEN /\ sp_result' = Raised("CalledProcessError", Some(returncode),
                                       sp_args, sp_kwargs.cwd, out[1], out[2])
                /\ sp_pc' = "raised"
           ELSE /\ sp_result' =
                     ReturnValue(CASE sp_fn = "check_call_out" -> out
                                 [] sp_fn = "check_call" -> 0
                                 [] sp_fn = "check_output" -> out[1])
                /\ sp_pc' = "returned"
    /\ UNCHANGED <<procRest, sp_child>>

NextProc ==
    \/ EnterWrapper
    \/ CreateProcess
    \/ Communicate
    \/ CheckReturnCode

SpecProc == InitProc /\ [][NextProc]_vars

----------------------------------------------------------------------------
\* subprocess2.Popen.__init__ called by several threads

InitPopen ==
    /\ planIdle
    /\ pc = "idle"
    /\ run = 1
    /\ dry_run = FALSE
    /\ comment = NoComment
    /\ branches = { RefactorBranch }
    /\ current_branch = RefactorBranch
    /\ refactor_branch = NoBranch
    /\ files_split_by_reviewers = <<>>
    /\ answer = ""
    /\ cl_index = 0
    /\ cls_per_reviewer = <<>>
    /\ log = <<>>
    /\ tmp_file = FALSE
    /\ fmtIdle
    /\ procIdle
    /\ lockIdle

popenRest == <<planVars, runVars, fmtVars, procVars>>

\* lines 128-159: a thread calls Popen and gets to the with statement
CallPopen(t) ==
    /\ th_pc[t] \in { "idle", "returned", "raised" }
    /\ th_calls[t] < MaxPopenCalls
    /\ th_calls' = [ th_calls EXCEPT ![t] = @ + 1 ]
    /\ th_pc' = [ th_pc EXCEPT ![t] = "with popen_lock" ]
    /\ UNCHANGED <<popenRest, popen_lock>>

\* line 160: threading.Lock.acquire, which waits while the lock is held
AcquireLock(t) ==
    /\ th_pc[t] = "with popen_lock"
    /\ ~popen_lock
    /\ popen_lock' = TRUE
    /\ th_pc' = [ th_pc EXCEPT ![t] = "subprocess.Popen.__init__" ]
    /\ UNCHANGED <<popenRest, th_calls>>

\* line 161: fork and exec, which succeed or raise OSError
ForkExec(t) ==
    /\ th_pc[t] = "subprocess.Popen.__init__"
    /\ \E raised \in BOOLEAN :
         th_pc' = [ th_pc EXCEPT ![t] = IF raised THEN "leave on OSError"
                                        ELSE "leave" ]
    /\ UNCHANGED <<popenRest, popen_lock, th_calls>>

\* line 160 with the lock released only when nothing was raised
LockAfterWith_KeptOnError(raised, locked) == IF raised THEN locked ELSE FALSE

\* line 160: the with statement releases the lock however the block is left
LockAfterWith(raised, locked) == FALSE

\* lines 160-162: the end of the with block
ReleaseLock(t) ==
    /\ th_pc[t] \in { "leave", "leave on OSError" }
    /\ popen_lock' = LockAfterWith(th_pc[t] = "leave on OSError", popen_lock)
    /\ th_pc' = [ th_pc EXCEPT ![t] = IF th_pc[t] = "leave" THEN "returned"
                                      ELSE "except OSError" ]
    /\ UNCHANGED <<popenRest, th_calls>>

\* lines 162-180: the OSError is raised again, as CygwinRebaseError or OSError
RaiseOSError(t) ==
    /\ th_pc[t] = "except OSError"
    /\ th_pc' = [ th_pc EXCEPT ![t] = "raised" ]
    /\ UNCHANGED <<popenRest, popen_lock, th_calls>>

NextPopen ==
    \E t \in Threads :
        \/ CallPopen(t)
        \/ AcquireLock(t)
        \/ ForkExec(t)
        \/ ReleaseLock(t)
        \/ RaiseOSError(t)

SpecPopen == InitPopen /\ [][NextPopen]_vars

\* ------------------------------------------------------------------------
\* Properties of the plan
\* ------------------------------------------------------------------------
\* positions <<i, j>> of the plan that hold the entry e
PlanPositions(info, e) ==
    { x \in { <<i, j>> : i \in DOMAIN info, j \in 1..MaxFiles + 1 } :
        x[2] \in DOMAIN info[x[1]].files /\ info[x[1]].files[x[2]] = e }

PlanEntries(info) == UNION { Range(info[i].files) : i \in DOMAIN info }

\* C1: the returned plan holds every input (action, path) entry in exactly
\* one position of exactly one group and holds no entry that is not in the
\* input, for every file list and every max_depth >= 0.
C1_NoLossNoDuplication ==
    ppc = "done" =>
        /\ \A e \in Range(files) :
              Cardinality(PlanPositions(info_split_by_reviewers, e)) = 1
        /\ PlanEntries(info_split_by_reviewers) \subseteq Range(files)

\* a plan of a full-length list in which a bucket holds two files and two
\* buckets were merged
C1_Witness ==
    /\ ppc = "done"
    /\ Len(files) >= 3
    /\ \E i \in DOMAIN files_split_by_owners :
          Len(files_split_by_owners[i].files) >= 2
    /\ \E i \in DOMAIN info_split_by_reviewers :
          Len(info_split_by_reviewers[i].owners_directories) >= 2

\* C2: the walk stops when it has reached the root: at '' the while
\* condition is false and the file is assigned to the root bucket. (At ''
\* dirname returns '' again, so a walk that does not stop there repeats the
\* same iteration forever.)
C2_WalkStopsAtRoot ==
    (ppc = "walk" /\ dir_with_owners = ROOT) =>
        WalkStops(dir_with_owners, files_split_by_owners, owners)

\* the bucket and the assignment a file of the input ended up in
BucketOf(e) ==
    CHOOSE i \in DOMAIN files_split_by_owners :
        e \in Range(files_split_by_owners[i].files)

AssignmentOf(e) ==
    CHOOSE i \in DOMAIN info_split_by_reviewers :
        e \in Range(info_split_by_reviewers[i].files)

\* C3: two files that resolve to the same ownership boundary (the same
\* directory of the working copy) and whose ownership groups got the same
\* set of reviewers are in the same assignment of the plan; the input list
\* ranges over all orders.
C3_SameBoundarySameGroup ==
    ppc = "done" =>
        \A e1, e2 \in Range(files) :
            ( /\ RealDir(files_split_by_owners[BucketOf(e1)].dir)
                    = RealDir(files_split_by_owners[BucketOf(e2)].dir)
              /\ Range(info_split_by_reviewers[AssignmentOf(e1)].reviewers)
                    = Range(info_split_by_reviewers[AssignmentOf(e2)].reviewers) )
            => AssignmentOf(e1) = AssignmentOf(e2)

\* C4: ownership groups whose suggested reviewers are equal as sets are
\* merged: the plan never holds two assignments with the same reviewer set,
\* every assignment lists the directories of its ownership groups in order
\* and its files are their files concatenated in that order.
C4_SetEqualityMerges ==
    ppc = "done" =>
        /\ \A i, j \in DOMAIN info_split_by_reviewers :
              Range(info_split_by_reviewers[i].reviewers)
                  = Range(info_split_by_reviewers[j].reviewers) => i = j
        /\ \A i \in DOMAIN info_split_by_reviewers :
              LET dirs == info_split_by_reviewers[i].owners_directories
                  bucketFiles(d) ==
                      files_split_by_owners[
                          CHOOSE b \in DOMAIN files_split_by_owners :
                              files_split_by_owners[b].dir = d].files
                  RECURSIVE concat(_)
                  concat(k) == IF k = 0 THEN <<>>
                               ELSE concat(k - 1) \o bucketFiles(dirs[k])
              IN  info_split_by_reviewers[i].files = concat(Len(dirs))

\* ------------------------------------------------------------------------
\* Properties of the run
\* ------------------------------------------------------------------------
GitOps == { "git rev-parse", "git config", "git checkout -b", "git rm",
            "git checkout --", "git commit", "git checkout" }

\* what creates a branch, changes the working copy or reaches the server
SideEffectOps == { "git checkout -b", "git rm", "git checkout --",
                   "git commit", "cmd_upload", "AddComment" }

NoSideEffects(lg) == \A i \in DOMAIN lg : lg[i].op \notin SideEffectOps

IsSkipNotice(e) == e.op = "print" /\ e.cl > 0 /\ Head(e.arg) = "Skipping "

\* a git command of this run raised CalledProcessError
GitFailed == \E i \in DOMAIN log : log[i].op \in GitOps /\ ~log[i].ok

UploadFailed(k) ==
    \E i \in DOMAIN log :
        log[i].op = "cmd_upload" /\ log[i].cl = k /\ ~log[i].ok

Uploaded(k) ==
    \E i \in DOMAIN log : log[i].op = "cmd_upload" /\ log[i].cl = k

Skipped(k) == \E i \in DOMAIN log : IsSkipNotice(log[i]) /\ log[i].cl = k

CreatedSplitBranch ==
    \E i \in DOMAIN log : log[i].op = "git checkout -b" /\ log[i].ok

\* the step of UploadCl for a group whose branch exists: nothing but the
\* notice, and the loop is at the next group
C5_SkipStep ==
    ( /\ pc = "loop"
      /\ ~dry_run
      /\ cl_index \in DOMAIN files_split_by_reviewers
      /\ BranchName(refactor_branch, Group.owners_directories) \in branches )
    => /\ branches' = branches
       /\ current_branch' = current_branch
       /\ Len(log') = Len(log) + 1
       /\ SubSeq(log', 1, Len(log)) = log
       /\ IsSkipNotice(log'[Len(log')])
       /\ pc' = "loop"
       /\ cl_index' = cl_index + 1

\* C5: when UploadCl is called for a group whose branch prefix + '_' +
\* directories[0] + '_split' exists, the group is skipped without error: no
\* branch is created, no git rm, checkout or commit is issued, nothing is
\* uploaded and no comment is posted for it, in this step or later in the
\* run, and SplitCl goes on with the next group.
C5_ExistingBranchSkipped ==
    /\ [][C5_SkipStep]_vars
    /\ [](\A k \in DOMAIN files_split_by_reviewers :
            Skipped(k) =>
                /\ \A i \in DOMAIN log :
                     log[i].cl = k => log[i].op \notin SideEffectOps
                /\ (~GitFailed => pc \notin { "return 1", "AssertionError" }))

\* a second run that skipped its first group and uploaded its second
C5_Witness ==
    /\ run = 2
    /\ Skipped(1)
    /\ Uploaded(2)

\* the step that follows an answer other than 'y', 'Y'
C6_DeclineStep ==
    (pc = "answered" /\ answer \notin { "y", "Y" })
    => /\ pc' = "return 0"
       /\ branches' = branches
       /\ current_branch' = current_branch
       /\ NoSideEffects(log')

\* C6 (as amended): without a Bug: line, an answer other than 'y' or 'Y'
\* makes SplitCl return 0 with no branch created, no git rm / checkout /
\* commit, no upload and no comment.
C6_DeclineIsNoOp == [][C6_DeclineStep]_vars

\* C6 (as stated): every answer other than 'y' makes SplitCl return 0 as a
\* no-op.
C6_AnyAnswerButLowerY ==
    [][ (pc = "answered" /\ answer # "y")
        => /\ pc' = "return 0"
           /\ branches' = branches
           /\ NoSideEffects(log') ]_vars

\* a run that was stopped by the answer 'n'
C6_Witness ==
    /\ pc = "return 0"
    /\ answer = "n"
    /\ NoSideEffects(log)

\* C7: a non-zero result of cmd_upload does not end the run: unless a git
\* command raised CalledProcessError the run does not return 1, and when it
\* returns 0 every group of the plan was processed (uploaded or skipped).
C7_UploadFailureRecoverable ==
    (\E k \in DOMAIN files_split_by_reviewers : UploadFailed(k)) =>
        /\ ~GitFailed => pc \notin { "return 1", "AssertionError" }
        /\ pc = "return 0" =>
              \A k \in DOMAIN files_split_by_reviewers :
                  Uploaded(k) \/ Skipped(k)

\* the upload of the first group failed, the second was still uploaded and
\* the run returned 0
C7_Witness ==
    /\ pc = "return 0"
    /\ UploadFailed(1)
    /\ Len(files_split_by_reviewers) >= 2
    /\ Uploaded(2)
    /\ ~UploadFailed(2)

\* C8: a git command that raises CalledProcessError ends the run at once:
\* the only thing after it is the write of its stderr, and SplitCl has
\* returned 1.
C8_ProcessFailureAborts ==
    \A i \in DOMAIN log :
        (log[i].op \in GitOps /\ ~log[i].ok) =>
            /\ pc = "return 1"
            /\ i = Len(log) - 1
            /\ log[Len(log)].op = "stderr"

\* the commit of the first of two groups failed
C8_Witness ==
    /\ pc = "return 1"
    /\ Len(files_split_by_reviewers) >= 2
    /\ Len(log) >= 2
    /\ log[Len(log) - 1].op = "git commit"
    /\ log[Len(log) - 1].cl = 1
    /\ ~log[Len(log) - 1].ok

PreconditionFailed ==
    \E i \in DOMAIN log :
        \/ log[i].op \in { "git rev-parse", "git.current_branch",
                           "git.upstream" } /\ ~log[i].ok
        \/ log[i].op = "print" /\ log[i].cl = 0
             /\ log[i].arg = <<"Cannot split an empty CL.">>

\* C10: each fatal precondition failure (not in a git working copy, detached
\* branch, no upstream, no changed file) makes SplitCl return 1, not raise,
\* and nothing is created or uploaded.
C10_PreconditionsReturn1 ==
    PreconditionFailed =>
        /\ pc = "return 1"
        /\ NoSideEffects(log)

----------------------------------------------------------------------------
\* Claims on the confirmation of a large split and on the reviewer load

\* the run has asked whether to proceed with a large split
AskedToProceed == \E i \in DOMAIN log : log[i].op = "AskForData"

\* C11 (as amended): a real run whose plan has more than CL_SPLIT_FORCE_LIMIT
\* groups asks for confirmation before the first branch is created, and an
\* answer other than 'y' or 'Y' makes it return 0 with no branch created and
\* nothing uploaded; a plan of at most CL_SPLIT_FORCE_LIMIT groups, or a dry
\* run, asks for no confirmation.
C11_LargeSplitConfirmed ==
    /\ cl_index = 0 => ~AskedToProceed
    /\ cl_index >= 1 =>
         (AskedToProceed <=>
            (~dry_run /\ Len(files_split_by_reviewers) > CL_SPLIT_FORCE_LIMIT))
    /\ \A i \in DOMAIN log :
         log[i].op = "AskForData" =>
           /\ NoSideEffects(SubSeq(log, 1, i))
           /\ log[i].arg[2] \notin { "y", "Y" } =>
                /\ pc = "return 0"
                /\ i = Len(log)
                /\ branches = { RefactorBranch }
                /\ current_branch = refactor_branch

\* C11 (as stated): every answer other than 'y' makes the large split return
\* 0 with no branch created and nothing uploaded.
C11_AnyAnswerButLowerY ==
    \A i \in DOMAIN log :
        (log[i].op = "AskForData" /\ log[i].arg[2] # "y") =>
            /\ pc = "return 0"
            /\ NoSideEffects(log)

\* a real run of eleven groups that was declined
C11_Witness ==
    /\ ~dry_run
    /\ Len(files_split_by_reviewers) = CL_SPLIT_FORCE_LIMIT + 1
    /\ pc = "return 0"
    /\ \E i \in DOMAIN log : log[i].op = "AskForData" /\ log[i].arg[2] = "n"

\* the previews of the groups, in the order they were printed
Previews == SelectSeq(log, LAMBDA e : e.op = "PrintClInfo")

\* C12: in a dry run SplitCl creates no branch, issues no git rm, no
\* selective checkout and no commit, calls no cmd_upload and posts no
\* comment; it prints one preview per group, numbered 1..N in plan order.
C12_DryRunOnlyPreviews ==
    dry_run =>
        /\ NoSideEffects(log)
        /\ branches = { RefactorBranch }
        /\ \A j \in DOMAIN Previews :
             /\ Previews[j].cl = j
             /\ j \in DOMAIN files_split_by_reviewers
             /\ Previews[j].arg = FormatDirectoriesForPrinting(
                    files_split_by_reviewers[j].owners_directories)
        /\ (pc = "loop" => Len(Previews) = cl_index - 1)
        /\ (pc = "return 0" /\ cl_index >= 1) =>
               Len(Previews) = Len(files_split_by_reviewers)

\* a dry run that previewed its two groups and returned 0
C12_Witness ==
    /\ dry_run
    /\ pc = "return 0"
    /\ Len(files_split_by_reviewers) = 2
    /\ Len(Previews) = 2

\* the number of groups of the plan that have the reviewer
GroupsOf(r) ==
    Cardinality({ k \in DOMAIN files_split_by_reviewers :
                    r \in Range(files_split_by_reviewers[k].reviewers) })

PlanReviewers ==
    UNION { Range(files_split_by_reviewers[k].reviewers) :
              k \in DOMAIN files_split_by_reviewers }

\* the loop of SplitCl has gone through every group
LoopOver == cl_index >= 1 /\ cl_index > Len(files_split_by_reviewers)

\* the reviewers that a printed summary shows
Shown(top) == { top[j].reviewer : j \in DOMAIN top }

\* C13: at the end of the loop the load counter of each reviewer is the
\* number of groups of the plan that have the reviewer; the printed summary
\* is in non-increasing order of that count and shows at most
\* CL_SPLIT_TOP_REVIEWERS entries, those of the highest counts; the groups
\* {A,B}, {A}, {B,C} give A:2, B:2, C:1, printed in this order.
C13_LoadCountersAndRanking ==
    /\ LoopOver =>
         /\ { cls_per_reviewer[i].reviewer : i \in DOMAIN cls_per_reviewer }
              = PlanReviewers
         /\ Len(cls_per_reviewer) = Cardinality(PlanReviewers)
         /\ \A i \in DOMAIN cls_per_reviewer :
              cls_per_reviewer[i].count = GroupsOf(cls_per_reviewer[i].reviewer)
    /\ \A i \in DOMAIN log :
         log[i].op = "top reviewers" =>
           LET top == log[i].arg
           IN  /\ Len(top) = Min(CL_SPLIT_TOP_REVIEWERS,
                                 Cardinality(PlanReviewers))
               /\ Cardinality(Shown(top)) = Len(top)
               /\ \A j \in DOMAIN top :
                    top[j].count = GroupsOf(top[j].reviewer)
               /\ \A j \in 1..(Len(top) - 1) : top[j].count >= top[j + 1].count
               /\ \A r \in PlanReviewers \ Shown(top) :
                    GroupsOf(r) <= top[Len(top)].count
               /\ [ k \in DOMAIN files_split_by_reviewers |->
                      files_split_by_reviewers[k].reviewers ]
                    = << <<"A", "B">>, <<"A">>, <<"B", "C">> >>
                  => top = << [ reviewer |-> "A", count |-> 2 ],
                              [ reviewer |-> "B", count |-> 2 ],
                              [ reviewer |-> "C", count |-> 1 ] >>

\* the summary of a run of eleven groups and eight reviewers: the reviewer
\* counted last in the most groups is printed first, three are not shown
C13_Witness ==
    /\ Len(files_split_by_reviewers) = CL_SPLIT_FORCE_LIMIT + 1
    /\ \E i \in DOMAIN log :
         /\ log[i].op = "top reviewers"
         /\ Len(log[i].arg) = CL_SPLIT_TOP_REVIEWERS
         /\ log[i].arg[1] = [ reviewer |-> "G", count |-> 4 ]
         /\ "A" \in Shown(log[i].arg)
         /\ "C" \notin Shown(log[i].arg)

\* the load counter of a reviewer, 0 for a reviewer not counted yet
LoadOf(r) ==
    IF \E i \in DOMAIN cls_per_reviewer : cls_per_reviewer[i].reviewer = r
    THEN (CHOOSE e \in Range(cls_per_reviewer) : e.reviewer = r).count
    ELSE 0

\* the number of groups before the current one that have the reviewer
GroupsDoneOf(r) ==
    Cardinality({ k \in DOMAIN files_split_by_reviewers :
                    /\ k < cl_index
                    /\ r \in Range(files_split_by_reviewers[k].reviewers) })

\* C14: a dry run and a real run of the same plan produce the same load
\* counters: in both modes every group the loop has gone through has added
\* one to each of its reviewers, also a group skipped because its branch
\* exists and a group whose upload returned non-zero, so that after the loop
\* the counters are those of the plan.
C14_SameCountersInBothModes ==
    cl_index >= 1 =>
        /\ \A r \in PlanReviewers : LoadOf(r) = GroupsDoneOf(r)
        /\ \A i \in DOMAIN cls_per_reviewer :
             cls_per_reviewer[i].reviewer \in PlanReviewers
        /\ LoopOver => \A r \in PlanReviewers : LoadOf(r) = GroupsOf(r)

\* a real run that skipped its first group, got a non-zero return from the
\* upload of its second, and counted the reviewers of both
C14_Witness ==
    /\ ~dry_run
    /\ LoopOver
    /\ Skipped(1)
    /\ UploadFailed(2)
    /\ Len(files_split_by_reviewers[1].reviewers) = 2
    /\ files_split_by_reviewers[2].reviewers # <<>>
    /\ \A r \in PlanReviewers : LoadOf(r) = GroupsOf(r)

----------------------------------------------------------------------------
\* Claims on the ownership groups of the plan

IsPrefix(s, t) == Len(s) <= Len(t) /\ SubSeq(t, 1, Len(s)) = s

\* the directory of a changed file, as os.path.dirname and normpath give it
FullDir(e) == normpath(dirname(e[2]))

\* the first max_depth segments of the directory of a changed file, the
\* whole directory when max_depth < 1
SearchedDir(e) ==
    IF max_depth >= 1
    THEN [ i \in 1..Min(max_depth, Len(FullDir(e))) |-> FullDir(e)[i] ]
    ELSE FullDir(e)

\* C15: with max_depth >= 1 the search for an OWNERS file starts at the first
\* max_depth segments of the directory of the file: the key of every
\* ownership group has at most max_depth segments and is that truncated
\* directory or an ancestor of it, and it is the truncated directory when
\* this one has an OWNERS file. With max_depth < 1 the search starts at the
\* directory itself. With max_depth = 1 and OWNERS files only in a/ and z/,
\* the files a/b/f, a/c/f, z/f give the two groups a and z.
C15_DepthTruncation ==
    /\ \A i \in DOMAIN files_split_by_owners :
         LET bucket == files_split_by_owners[i]
         IN  /\ max_depth >= 1 => Len(bucket.dir) <= max_depth
             /\ \A e \in Range(bucket.files) :
                  /\ IsPrefix(bucket.dir, SearchedDir(e))
                  /\ HasOwnersFile(SearchedDir(e), owners)
                       => bucket.dir = SearchedDir(e)
    /\ ( /\ ppc \in { "select", "done" }
         /\ files = << StatusOrder[1], StatusOrder[2], StatusOrder[4] >>
         /\ max_depth = 1
         /\ owners = { <<"a">>, <<"z">> } )
       => files_split_by_owners =
            << [ dir |-> <<"a">>,
                 files |-> << StatusOrder[1], StatusOrder[2] >> ],
               [ dir |-> <<"z">>, files |-> << StatusOrder[4] >> ] >>

\* the example of the claim, split into its two groups
C15_Witness ==
    /\ ppc = "done"
    /\ max_depth = 1
    /\ files = << StatusOrder[1], StatusOrder[2], StatusOrder[4] >>
    /\ owners = { <<"a">>, <<"z">> }
    /\ Len(files_split_by_owners) = 2

\* C16: every changed file is in exactly one ownership group; the key of the
\* group is the nearest directory with an OWNERS file at or above the
\* (possibly truncated) directory of the file; the root of the working copy
\* has one group, which holds the files of the root and the files whose walk
\* climbed up to the root.
C16_OneGroupPerDirectory ==
    ppc \in { "select", "done" } =>
        /\ \A e \in Range(files) :
             Cardinality({ i \in DOMAIN files_split_by_owners :
                             e \in Range(files_split_by_owners[i].files) }) = 1
        /\ \A i \in DOMAIN files_split_by_owners :
             LET bucket == files_split_by_owners[i]
             IN  /\ HasOwnersFile(bucket.dir, owners)
                 /\ \A e \in Range(bucket.files) :
                      /\ IsPrefix(RealDir(bucket.dir), RealDir(SearchedDir(e)))
                      /\ \A n \in (Len(RealDir(bucket.dir)) + 1)
                                    ..Len(RealDir(SearchedDir(e))) :
                           ~HasOwnersFile(SubSeq(SearchedDir(e), 1, n), owners)
        /\ \A i, j \in DOMAIN files_split_by_owners :
             RealDir(files_split_by_owners[i].dir)
               = RealDir(files_split_by_owners[j].dir) => i = j

----------------------------------------------------------------------------
\* Claims on the steps of UploadCl

\* the comment of group k has been posted
CommentPosted(k) ==
    \E i \in DOMAIN log : log[i].op = "AddComment" /\ log[i].cl = k

\* UploadCl has called cmd_upload for group k and has not gone on yet
UploadReturning(k) == pc = "comment" /\ cl_index = k

\* C17: the arguments of every upload contain -f; they contain -r, followed
\* by the reviewers of the group, exactly when the group has reviewers; they
\* contain --send-mail exactly when no comment is posted after the upload:
\* once UploadCl has gone on, exactly one of 'mail sent by the upload' and
\* 'comment posted' holds for the group.
C17_UploadArguments ==
    \A i \in DOMAIN log :
        log[i].op = "cmd_upload" =>
            LET k == log[i].cl
                args == log[i].arg
                reviewers == files_split_by_reviewers[k].reviewers
                mail == "--send-mail" \in Range(args)
            IN  /\ "-f" \in Range(args)
                /\ ("-r" \in Range(args)) <=> (reviewers # <<>>)
                /\ \A r \in Range(reviewers) : r \in Range(args)
                /\ ~(mail /\ CommentPosted(k))
                /\ ~UploadReturning(k) => (mail \/ CommentPosted(k))
                /\ mail => ~UploadReturning(k)

\* a run with a comment that uploaded a group without reviewers and a group
\* with reviewers, and posted the comment on both
C17_Witness ==
    /\ comment # NoComment
    /\ Len(files_split_by_reviewers) = 2
    /\ Uploaded(1) /\ CommentPosted(1)
    /\ Uploaded(2) /\ CommentPosted(2)
    /\ \E k \in 1..2 : files_split_by_reviewers[k].reviewers = <<>>
    /\ \E k \in 1..2 : Len(files_split_by_reviewers[k].reviewers) = 2

\* C18: with a comment supplied, the comment of a group is posted, with the
\* directories of the group in the place of $directory, right after
\* cmd_upload has returned for the group, whether it returned zero or not;
\* no comment is posted for a group before its upload, or without a comment
\* supplied.
C18_CommentAfterUpload ==
    /\ \A i \in DOMAIN log :
         log[i].op = "AddComment" =>
           /\ comment # NoComment
           /\ \E j \in 1..(i - 1) :
                log[j].op = "cmd_upload" /\ log[j].cl = log[i].cl
           /\ "$directory" \notin Range(log[i].arg)
           /\ log[i].arg = <<"Please review ">> \o
                FormatDirectoriesForPrinting(
                    files_split_by_reviewers[log[i].cl].owners_directories)
    /\ \A j \in DOMAIN log :
         (log[j].op = "cmd_upload" /\ comment # NoComment) =>
           LET next == IF log[j].ok THEN j + 1 ELSE j + 2
           IN  \/ /\ UploadReturning(log[j].cl)
                  /\ Len(log) = next - 1
               \/ /\ next \in DOMAIN log
                  /\ log[next].op = "AddComment"
                  /\ log[next].cl = log[j].cl

\* a comment posted on a group whose upload returned non-zero
C18_Witness ==
    \E k \in DOMAIN files_split_by_reviewers :
        UploadFailed(k) /\ CommentPosted(k)

\* the calls of an operation for group k
CallsOf(op, k) == { i \in DOMAIN log : log[i].op = op /\ log[i].cl = k }

\* the paths of the files of group k whose action is, or is not, 'D'
PathsOfGroup(k, deleted) ==
    { AbsPath(e[2]) : e \in { x \in Range(files_split_by_reviewers[k].files) :
                                (x[1] = "D") = deleted } }

\* C19: the files of a group with action 'D' go to one git rm, the others to
\* one selective checkout from the source branch; every file of the group is
\* in exactly one of the two calls, and a call with no file is not issued.
C19_BulkRemoveAndCheckout ==
    \A k \in DOMAIN files_split_by_reviewers :
        /\ \A i \in CallsOf("git rm", k) :
             /\ log[i].arg # <<>>
             /\ Range(log[i].arg) = PathsOfGroup(k, TRUE)
             /\ Len(log[i].arg) = Cardinality(PathsOfGroup(k, TRUE))
        /\ \A i \in CallsOf("git checkout --", k) :
             /\ log[i].arg # <<>>
             /\ Range(log[i].arg) = PathsOfGroup(k, FALSE)
             /\ Len(log[i].arg) = Cardinality(PathsOfGroup(k, FALSE))
        /\ Cardinality(CallsOf("git rm", k)) <= 1
        /\ Cardinality(CallsOf("git checkout --", k)) <= 1
        /\ CallsOf("git commit", k) # {} =>
             /\ (CallsOf("git rm", k) # {}) <=> (PathsOfGroup(k, TRUE) # {})
             /\ (CallsOf("git checkout --", k) # {})
                  <=> (PathsOfGroup(k, FALSE) # {})

\* a group with a deleted and an added file, removed, checked out, committed
C19_Witness ==
    \E k \in DOMAIN files_split_by_reviewers :
        /\ CallsOf("git rm", k) # {}
        /\ CallsOf("git checkout --", k) # {}
        /\ CallsOf("git commit", k) # {}

----------------------------------------------------------------------------
\* Claims on FormatDescriptionOrComment

\* what takes the place of the placeholder: the list as it is printed
Inserted == FormatDirectoriesForPrinting(fmt_directories)

\* the directories of a list, one after the other
RECURSIVE Joined(_)
Joined(directories) ==
    IF directories = <<>> THEN <<>>
    ELSE DirString(Head(directories)) \o Joined(Tail(directories))

\* the number of placeholders before piece i of the text
PlaceholdersBefore(i) ==
    Cardinality({ j \in 1..(i - 1) : fmt_txt[j] = "$directory" })

\* where piece i of the text starts in the result, counted from 0
Offset(i) ==
    (i - 1 - PlaceholdersBefore(i)) + PlaceholdersBefore(i) * Len(Inserted)

\* C20: FormatDescriptionOrComment puts the formatted directory list in the
\* place of every $directory of the text and leaves every other piece of the
\* text where it was; the list is the bare directory for one directory and a
\* bracketed, comma-separated list of quoted directories for several; a text
\* without $directory is returned unchanged.
C20_EveryPlaceholderReplaced ==
    pc = "formatted" =>
        /\ Len(fmt_result) = Offset(Len(fmt_txt) + 1)
        /\ \A i \in DOMAIN fmt_txt :
             IF fmt_txt[i] = "$directory"
             THEN SubSeq(fmt_result, Offset(i) + 1, Offset(i) + Len(Inserted))
                    = Inserted
             ELSE fmt_result[Offset(i) + 1] = fmt_txt[i]
        /\ "$directory" \notin Range(fmt_result)
        /\ "$directory" \notin Range(fmt_txt) => fmt_result = fmt_txt
        /\ Len(fmt_directories) = 1 => Inserted = DirString(fmt_directories[1])
        /\ Len(fmt_directories) > 1 =>
             /\ Head(Inserted) = "["
             /\ Inserted[Len(Inserted)] = "]"
             /\ SelectSeq(Inserted, LAMBDA c : c \notin { "[", "]", "'", ", " })
                  = Joined(fmt_directories)
             /\ Len(SelectSeq(Inserted, LAMBDA c : c = ", "))
                  = Len(fmt_directories) - 1
             /\ Len(SelectSeq(Inserted, LAMBDA c : c = "'"))
                  = 2 * Len(fmt_directories)

\* a text with two placeholders, formatted for a group of two directories
C20_Witness ==
    /\ pc = "formatted"
    /\ Len(fmt_directories) = 2
    /\ PlaceholdersBefore(Len(fmt_txt) + 1) = 2
    /\ fmt_txt[1] = "Fix "
    /\ fmt_result # fmt_txt

----------------------------------------------------------------------------
\* Claims on the wrappers of subprocess2

\* the call of the wrapper is over
CallOver == sp_pc \in { "returned", "raised" }

\* the call raised a CalledProcessError or a subclass of it
RaisedCalledProcessError ==
    /\ sp_result.kind = "raise"
    /\ sp_result.type \in { "CalledProcessError", "CygwinRebaseError" }

\* the child ran and exited with a code other than 0
ChildFailed == sp_child.started /\ sp_child.returncode \notin { None, Some(0) }

\* check_output was given a stdout argument
StdoutRefused == sp_fn = "check_output" /\ sp_kwargs.stdout # "absent"

\* C21 (as amended): once the child process has been created, each wrapper
\* raises CalledProcessError with the exit code, the command, the working
\* directory and the captured stdout and stderr exactly when the child exits
\* non-zero, and returns the output (check_call: 0) when it exits zero;
\* check_output refuses a stdout argument with ValueError before any process
\* is started. Without a child, a call raises OSError, CygwinRebaseError, or
\* a CalledProcessError without exit code for args that are neither a string
\* nor a list.
C21_RaisesOnNonZeroExit ==
    CallOver =>
        /\ StdoutRefused =>
             /\ sp_result.kind = "raise"
             /\ sp_result.type = "ValueError"
             /\ ~sp_child.started
        /\ ChildFailed =>
             sp_result = [ kind |-> "raise", type |-> "CalledProcessError",
                           returncode |-> sp_child.returncode,
                           cmd |-> sp_args, cwd |-> sp_kwargs.cwd,
                           stdout |-> sp_child.stdout,
                           stderr |-> sp_child.stderr ]
        /\ (sp_child.started /\ ~ChildFailed) =>
             /\ sp_result.kind = "return"
             /\ CASE sp_fn = "check_call_out" ->
                       sp_result.value = << sp_child.stdout, sp_child.stderr >>
                  [] sp_fn = "check_call" -> sp_result.value = 0
                  [] sp_fn = "check_output" ->
                       sp_result.value = Some("out")
        /\ (~sp_child.started /\ ~StdoutRefused) =>
             /\ sp_result.kind = "raise"
             /\ sp_result.type \in { "OSError", "CygwinRebaseError",
                                     "CalledProcessError" }
             /\ sp_result.type = "CalledProcessError" =>
                  /\ sp_result.returncode = None
                  /\ sp_args.type \notin { "str", "list" }
        /\ sp_child.started => sp_args.type \in { "str", "list" }

\* C21 (as stated): a wrapper raises CalledProcessError exactly when the
\* child exits non-zero.
C21_RaisesExactlyOnNonZeroExit ==
    CallOver => (RaisedCalledProcessError <=> ChildFailed)

\* check_output of a child killed by a signal: the error carries the exit
\* code and the captured stdout
C21_Witness ==
    /\ sp_pc = "raised"
    /\ sp_fn = "check_output"
    /\ sp_result.type = "CalledProcessError"
    /\ sp_result.returncode = Some(-9)
    /\ sp_result.stdout = Some("out")
    /\ sp_result.cwd = Some("/w")

----------------------------------------------------------------------------
\* Claims on runs of SplitCl in a row and on the order of the steps

\* the branch of group k of the plan
BranchOfGroup(k) ==
    BranchName(RefactorBranch, files_split_by_reviewers[k].owners_directories)

\* what a step adds to the log; the step to the next run adds nothing
NewEntries ==
    IF Len(log') >= Len(log) THEN SubSeq(log', Len(log) + 1, Len(log'))
    ELSE <<>>

\* a step of a run, seen from the branches that exist: no branch is ever
\* removed; a branch is only created for a group that has none; files are
\* only applied, committed, uploaded and commented for a group whose branch
\* this run has created; a group is skipped exactly when its branch exists
C22_ResumeStep ==
    /\ branches \subseteq branches'
    /\ \A i \in DOMAIN NewEntries :
         LET e == NewEntries[i]
         IN  /\ e.op = "git checkout -b" =>
                  /\ BranchOfGroup(e.cl) \notin branches
                  /\ e.arg = BranchOfGroup(e.cl)
                  /\ (BranchOfGroup(e.cl) \in branches') <=> e.ok
             /\ e.op \in SideEffectOps \ { "git checkout -b" } =>
                  /\ BranchOfGroup(e.cl) \in branches
                  /\ \E j \in DOMAIN log :
                       /\ log[j].op = "git checkout -b"
                       /\ log[j].cl = e.cl
                       /\ log[j].ok
             /\ IsSkipNotice(e) =>
                  /\ BranchOfGroup(e.cl) \in branches
                  /\ \A j \in DOMAIN log : log[j].cl # e.cl
    /\ ( /\ pc = "loop"
         /\ ~dry_run
         /\ cl_index \in DOMAIN files_split_by_reviewers )
       => LET e == NewEntries[1]
          IN  /\ e.cl = cl_index
              /\ IF BranchOfGroup(cl_index) \in branches
                 THEN IsSkipNotice(e)
                 ELSE e.op = "git checkout -b"

\* C22: over runs of SplitCl in a row on the same plan, whether they end
\* normally, with an upload that failed or with a process failure, the branch
\* of a group is created at most once and cmd_upload is called at most once
\* for the group: a run skips the groups whose branch exists, also a branch
\* that an aborted run left half built, creates the branch of every other
\* group it gets to, and uploads only the groups whose branch it created; no
\* branch is ever removed.
C22_IdempotentResume ==
    /\ [][C22_ResumeStep]_vars
    /\ [](\A k \in DOMAIN files_split_by_reviewers :
            /\ Cardinality(CallsOf("git checkout -b", k)) <= 1
            /\ Cardinality(CallsOf("cmd_upload", k)) <= 1
            /\ Uploaded(k) => ~Skipped(k))

\* a second run that skipped the first group, whose branch exists, and
\* created the branch of the second group and uploaded it
C22_Witness ==
    /\ run = 2
    /\ Len(files_split_by_reviewers) = 2
    /\ Skipped(1)
    /\ \E i \in CallsOf("git checkout -b", 2) : log[i].ok
    /\ Uploaded(2)
    /\ pc = "return 0"

\* the steps of UploadCl, in the order of the code
StepOps == <<"git checkout -b", "git rm", "git checkout --", "git commit",
             "cmd_upload", "AddComment">>

StepRank(op) == CHOOSE n \in DOMAIN StepOps : StepOps[n] = op

\* the entries of the log that belong to a group
GroupEntries == { i \in DOMAIN log : log[i].cl > 0 }

\* group k has an earlier successful call of op
DoneBefore(op, k, i) ==
    \E j \in 1..(i - 1) : log[j].op = op /\ log[j].cl = k /\ log[j].ok

\* the loop is through with group k: previewed, skipped, or uploaded and, with
\* a comment supplied, commented
GroupFinished(k) ==
    \/ CallsOf("PrintClInfo", k) # {}
    \/ Skipped(k)
    \/ Uploaded(k) /\ (comment # NoComment => CommentPosted(k))

\* C23: within a group UploadCl goes through branch creation, git rm,
\* selective checkout, commit, upload and comment in this order, each after
\* the one before has succeeded, and the groups are processed one after the
\* other: cmd_upload is called for a group only after the commit of the group
\* succeeded, and nothing happens for group k+1 before everything of group k
\* has happened.
C23_StepsInOrder ==
    /\ \A i, j \in GroupEntries :
         i < j =>
           /\ log[i].cl <= log[j].cl
           /\ ( /\ log[i].cl = log[j].cl
                /\ log[i].op \in Range(StepOps)
                /\ log[j].op \in Range(StepOps) )
              => /\ StepRank(log[i].op) < StepRank(log[j].op)
                 /\ log[i].ok \/ log[i].op = "cmd_upload"
    /\ \A i \in GroupEntries :
         LET k == log[i].cl
             group_files == files_split_by_reviewers[k].files
         IN  /\ log[i].op \in { "git rm", "git checkout --", "git commit" }
                  => DoneBefore("git checkout -b", k, i)
             /\ log[i].op = "git commit" =>
                  /\ (\E e \in Range(group_files) : e[1] = "D")
                       => DoneBefore("git rm", k, i)
                  /\ (\E e \in Range(group_files) : e[1] # "D")
                       => DoneBefore("git checkout --", k, i)
             /\ log[i].op = "cmd_upload" => DoneBefore("git commit", k, i)
             /\ log[i].op = "AddComment" =>
                  \E j \in 1..(i - 1) :
                      log[j].op = "cmd_upload" /\ log[j].cl = k
    /\ \A i \in GroupEntries :
         /\ log[i].cl <= cl_index
         /\ \A k \in 1..(log[i].cl - 1) : GroupFinished(k)

\* a real run that went through the steps of two groups, with a comment
C23_Witness ==
    /\ Len(files_split_by_reviewers) = 2
    /\ CallsOf("git rm", 1) # {}
    /\ CallsOf("git commit", 1) # {}
    /\ CommentPosted(1)
    /\ CallsOf("git checkout --", 2) # {}
    /\ CommentPosted(2)

\* C24: within one plan no two groups have the same branch name prefix + '_'
\* + directories[0] + '_split', and no directory is in two groups; so a group
\* is never skipped because of a branch that an earlier group of the same run
\* created: the first run skips nothing, and a group that a run skips has no
\* branch created by that run.
C24_BranchNamesDistinct ==
    /\ \A k1, k2 \in DOMAIN files_split_by_reviewers :
         k1 # k2 =>
           /\ BranchOfGroup(k1) # BranchOfGroup(k2)
           /\ Range(files_split_by_reviewers[k1].owners_directories)
                \cap Range(files_split_by_reviewers[k2].owners_directories)
                = {}
    /\ \A i \in DOMAIN log :
         IsSkipNotice(log[i]) =>
           /\ run > 1
           /\ \A j \in DOMAIN log :
                log[j].op = "git checkout -b"
                  => log[j].arg # BranchOfGroup(log[i].cl)

\* a first run that created the branches of the two groups of the root, the
\* one keyed '.' and the one keyed ''
C24_Witness ==
    /\ run = 1
    /\ Len(files_split_by_reviewers) = 2
    /\ { files_split_by_reviewers[k].owners_directories[1] : k \in 1..2 }
         = { ROOT, DOT }
    /\ \A k \in 1..2 : \E i \in CallsOf("git checkout -b", k) : log[i].ok

\* the commit of a group raised CalledProcessError
CommitFailed ==
    \E i \in DOMAIN log : log[i].op = "git commit" /\ ~log[i].ok

\* C25: the file that holds the commit description exists only during the
\* commit step of UploadCl: it is there while git commit reads it and it is
\* removed on every way out of the step, also when git commit raises
\* CalledProcessError, so no such file is left when UploadCl has returned or
\* raised.
C25_DescriptionFileRemoved ==
    /\ tmp_file <=> pc = "commit -F"
    /\ Returned => ~tmp_file
    /\ tmp_file => CallsOf("git commit", cl_index) = {}

\* a run that was aborted by a failed git commit, with no file left
C25_Witness ==
    /\ pc = "return 1"
    /\ CommitFailed
    /\ ~tmp_file

----------------------------------------------------------------------------
\* Claims on Popen.popen_lock

\* the thread is inside the with block of Popen.__init__
InsideLock(t) ==
    th_pc[t] \in { "subprocess.Popen.__init__", "leave", "leave on OSError" }

\* C26: at any time at most one thread is inside subprocess.Popen.__init__,
\* popen_lock being held for the whole of it; the lock is held only while a
\* thread is inside, so it is free again when process creation has raised
\* OSError, and a failed Popen of one thread does not keep a later Popen of
\* another thread from acquiring it.
C26_PopenSerialised ==
    /\ Cardinality({ t \in Threads : InsideLock(t) }) <= 1
    /\ popen_lock <=> \E t \in Threads : InsideLock(t)
    /\ ( /\ \E t \in Threads : th_pc[t] \in { "except OSError", "raised" }
         /\ \A t \in Threads : ~InsideLock(t) )
       => ~popen_lock

\* a thread is creating a process after the Popen of another thread failed
C26_Witness ==
    \E t, u \in Threads :
        /\ t # u
        /\ th_pc[t] = "raised"
        /\ th_calls[t] = MaxPopenCalls
        /\ th_pc[u] = "subprocess.Popen.__init__"
        /\ popen_lock

----------------------------------------------------------------------------
\* Claim on the groups without a reviewer

\* the assignments of the plan that are keyed by the empty tuple
Unreviewed ==
    { k \in DOMAIN files_split_by_reviewers :
        files_split_by_reviewers[k].reviewers = <<>> }

\* the loop of SplitCl goes on from a group without reviewers to the next
LeavesUnreviewed ==
    /\ cl_index \in Unreviewed
    /\ cl_index' = cl_index + 1
    /\ files_split_by_reviewers' = files_split_by_reviewers

\* C27: the ownership groups for which SuggestOwners returns no reviewer
\* are all in one assignment of the plan, the one keyed by the empty tuple;
\* a real run uploads that assignment at most once, without -r, and going
\* through it leaves every load counter as it was, so that no counter
\* belongs to a reviewer who is not in the plan.
C27_UnreviewedGroupsMerged ==
    /\ [](Cardinality(Unreviewed) <= 1)
    /\ [](\A k \in Unreviewed :
            /\ Cardinality(CallsOf("cmd_upload", k)) <= 1
            /\ \A i \in CallsOf("cmd_upload", k) :
                 "-r" \notin Range(log[i].arg))
    /\ [][LeavesUnreviewed => cls_per_reviewer' = cls_per_reviewer]_vars

\* a real run whose two ownership groups both got no reviewer: they are one
\* assignment, uploaded without -r, and no counter exists after the loop
C27_Witness ==
    /\ ~dry_run
    /\ LoopOver
    /\ Len(files_split_by_reviewers) = 1
    /\ files_split_by_reviewers[1].reviewers = <<>>
    /\ Len(files_split_by_reviewers[1].owners_directories) = 2
    /\ Uploaded(1)
    /\ \E i \in CallsOf("cmd_upload", 1) : "-r" \notin Range(log[i].arg)
    /\ cls_per_reviewer = <<>>

====
